---- MODULE Spec2Model ----
(***************************************************************************)
(* Authority-before-execution: the decision data model, the authority      *)
(* gate, the bindings constructor and the execution boundary.              *)
(*                                                                         *)
(* Strings whose content matters to the gate (action names, scope strings) *)
(* are sequences of one-character strings, so that Python's `in` on a str  *)
(* (substring test) and list(str) (split into characters) are computed.    *)
(* A datetime is a record [wall, tz]; tz "naive" carries no tzinfo.        *)
(***************************************************************************)
EXTENDS Integers, Sequences, FiniteSets, TLC

VARIABLES now, decisions, artifacts, last, expired_seen, inflight, disk, fn,
          results, summary

vars == <<now, decisions, artifacts, last, expired_seen, inflight, disk, fn,
          results, summary>>

\* the state only concurrent exports, traced calls and evaluation touch
aux == <<inflight, disk, fn, results, summary>>

\* ------------------------------------------------------------------ bounds
MaxClock == 3

\* ------------------------------------------------------------ input values
\* action names: the empty string, a fragment of the permitted name, the
\* permitted name ("deploy_model" in the demos) and an unrelated name
DeployModel == <<"d", "m">>
ActionNames == { <<>>, <<"d">>, DeployModel, <<"x">> }
\* params the caller passes: plain JSON data, data that can be deep-copied
\* but not JSON-encoded, data that cannot even be deep-copied
ParamKinds == {"plain", "unserializable", "uncopyable"}
DecisionIds == {"d1"}
Approvers == {"", "lead"}
Reasons == {"", "ok"}
TzKinds == {"naive", "utc", "east"}
ExpiryWalls == {2}
Ttls == {-1, 0, 1}

\* ------------------------------------------------------------- data model
UtcOffset(tz) == IF tz = "east" THEN 1 ELSE 0

DateTime(wall, tz) == [wall |-> wall, tz |-> tz]

\* decision.py: _as_utc
_as_utc(dt) ==
    IF dt.tz = "naive"
    THEN DateTime(dt.wall, "utc")
    ELSE DateTime(dt.wall - UtcOffset(dt.tz), "utc")

\* Optional[datetime] field: kind "none" is None, "dt" a datetime, "bad" a
\* truthy value of another type (for instance a timestamp string).
NoExpiry == [kind |-> "none", wall |-> 0, tz |-> "utc"]
BadExpiry == [kind |-> "bad", wall |-> 0, tz |-> "utc"]
ExpiryAt(dt) == [kind |-> "dt", wall |-> dt.wall, tz |-> dt.tz]
ExpiryDt(e) == DateTime(e.wall, e.tz)

\* Optional[Iterable[str]] field: "none" is None, "list" a list of strings,
\* "str" one string, "bad" a value that is not iterable (for instance 5).
NoScope == [kind |-> "none", items |-> <<>>, str |-> <<>>]
BadScope == [kind |-> "bad", items |-> <<>>, str |-> <<>>]
ListScope(items) == [kind |-> "list", items |-> items, str |-> <<>>]
StrScope(s) == [kind |-> "str", items |-> <<>>, str |-> s]

Authority(approved_by, reason, scope, expires_at) ==
    [present |-> TRUE, approved_by |-> approved_by, reason |-> reason,
     scope |-> scope, expires_at |-> expires_at]

NoAuthority ==
    [present |-> FALSE, approved_by |-> "", reason |-> "",
     scope |-> NoScope, expires_at |-> NoExpiry]

Proposal(action, params) ==
    [action |-> action, params |-> params, rationale |-> "r"]

Decision(proposal, authority, decision_id, created_at) ==
    [proposal |-> proposal, authority |-> authority,
     decision_id |-> decision_id, created_at |-> created_at]

\* A call either returns a value or raises; exc = "none" means it returned.
Returned(v) == [exc |-> "none", value |-> v]
Raised(e) == [exc |-> e, value |-> FALSE]

\* is_expired with the expiry instant itself still valid
is_expired_exclusive(authority, nowdt) ==
    IF authority.expires_at.kind = "none" THEN Returned(FALSE)
    ELSE IF authority.expires_at.kind = "bad" THEN Raised("AttributeError")
    ELSE Returned(_as_utc(nowdt).wall > _as_utc(ExpiryDt(authority.expires_at)).wall)

\* Authority.is_expired(now)
is_expired(authority, nowdt) ==
    IF authority.expires_at.kind = "none" THEN Returned(FALSE)
    ELSE IF authority.expires_at.kind = "bad" THEN Raised("AttributeError")
    ELSE Returned(_as_utc(nowdt).wall >= _as_utc(ExpiryDt(authority.expires_at)).wall)

\* ---------------------------------------------------------- authority gate
\* Python `x in s` for two str values: substring test.
IsSubstring(a, s) ==
    \E i \in 0..(Len(s) - Len(a)) : SubSeq(s, i + 1, i + Len(a)) = a

\* Python `x in l` for a list: some element equals x.
InList(a, l) == \E i \in 1..Len(l) : l[i] = a

\* authority_gate.py: _scope_allows_action
_scope_allows_action(scope, action) ==
    IF scope.kind = "none" THEN Returned(TRUE)
    ELSE IF scope.kind = "bad" THEN Raised("TypeError")
    ELSE IF scope.kind = "str" THEN Returned(IsSubstring(action, scope.str))
    ELSE Returned(InList(action, scope.items))

Gate(exc, message) == [exc |-> exc, message |-> message]

\* enforce_authority letting a decision with no authority through
enforce_authority_fail_open(decision, nowdt) ==
    LET authority == decision.authority
        expired == is_expired(authority, nowdt)
        allows == _scope_allows_action(authority.scope, decision.proposal.action)
    IN  IF ~authority.present
        THEN Gate("none", "")
        ELSE IF authority.approved_by = ""
        THEN Gate("AuthorityMissing", "Execution blocked: authority missing approver")
        ELSE IF authority.reason = ""
        THEN Gate("AuthorityMissing", "Execution blocked: authority missing justification")
        ELSE IF expired.exc # "none"
        THEN Gate(expired.exc, "")
        ELSE IF expired.value
        THEN Gate("AuthorityExpired", "Execution blocked: authority expired")
        ELSE IF allows.exc # "none"
        THEN Gate(allows.exc, "")
        ELSE IF ~allows.value
        THEN Gate("AuthorityScopeViolation", "Execution blocked: authority out of scope")
        ELSE Gate("none", "")

\* enforce_authority testing the scope before the expiry
enforce_authority_scope_first(decision, nowdt) ==
    LET authority == decision.authority
        expired == is_expired(authority, nowdt)
        allows == _scope_allows_action(authority.scope, decision.proposal.action)
    IN  IF ~authority.present
        THEN Gate("AuthorityMissing", "Execution blocked: authority not bound")
        ELSE IF authority.approved_by = ""
        THEN Gate("AuthorityMissing", "Execution blocked: authority missing approver")
        ELSE IF authority.reason = ""
        THEN Gate("AuthorityMissing", "Execution blocked: authority missing justification")
        ELSE IF allows.exc # "none"
        THEN Gate(allows.exc, "")
        ELSE IF ~allows.value
        THEN Gate("AuthorityScopeViolation", "Execution blocked: authority out of scope")
        ELSE IF expired.exc # "none"
        THEN Gate(expired.exc, "")
        ELSE IF expired.value
        THEN Gate("AuthorityExpired", "Execution blocked: authority expired")
        ELSE Gate("none", "")

\* enforce_authority testing the expiry before the approver and the reason
enforce_authority_expiry_first(decision, nowdt) ==
    LET authority == decision.authority
        expired == is_expired(authority, nowdt)
        allows == _scope_allows_action(authority.scope, decision.proposal.action)
    IN  IF ~authority.present
        THEN Gate("AuthorityMissing", "Execution blocked: authority not bound")
        ELSE IF expired.exc # "none"
        THEN Gate(expired.exc, "")
        ELSE IF expired.value
        THEN Gate("AuthorityExpired", "Execution blocked: authority expired")
        ELSE IF authority.approved_by = ""
        THEN Gate("AuthorityMissing", "Execution blocked: authority missing approver")
        ELSE IF authority.reason = ""
        THEN Gate("AuthorityMissing", "Execution blocked: authority missing justification")
        ELSE IF allows.exc # "none"
        THEN Gate(allows.exc, "")
        ELSE IF ~allows.value
        THEN Gate("AuthorityScopeViolation", "Execution blocked: authority out of scope")
        ELSE Gate("none", "")

\* authority_gate.py: enforce_authority; nowdt is the value of _utcnow().
\* exc = "none" is a normal return, otherwise the exception raised.
enforce_authority(decision, nowdt) ==
    LET authority == decision.authority
        expired == is_expired(authority, nowdt)
        allows == _scope_allows_action(authority.scope, decision.proposal.action)
    IN  IF ~authority.present
        THEN Gate("AuthorityMissing", "Execution blocked: authority not bound")
        ELSE IF authority.approved_by = ""
        THEN Gate("AuthorityMissing", "Execution blocked: authority missing approver")
        ELSE IF authority.reason = ""
        THEN Gate("AuthorityMissing", "Execution blocked: authority missing justification")
        ELSE IF expired.exc # "none"
        THEN Gate(expired.exc, "")
        ELSE IF expired.value
        THEN Gate("AuthorityExpired", "Execution blocked: authority expired")
        ELSE IF allows.exc # "none"
        THEN Gate(allows.exc, "")
        ELSE IF ~allows.value
        THEN Gate("AuthorityScopeViolation", "Execution blocked: authority out of scope")
        ELSE Gate("none", "")

\* datetime.isoformat(): the wall time followed by the UTC offset, which is
\* absent for a naive datetime.
IsoFormat(dt) ==
    [kind |-> "iso", wall |-> dt.wall,
     suffix |-> IF dt.tz = "naive" THEN ""
                ELSE IF dt.tz = "utc" THEN "+00:00" ELSE "+01:00"]

NoIso == [kind |-> "none", wall |-> 0, suffix |-> ""]

\* str.replace("+00:00", "Z") on an ISO string
ReplaceUtcSuffix(iso) ==
    IF iso.suffix = "+00:00" THEN [iso EXCEPT !.suffix = "Z"] ELSE iso

NoSnapshot ==
    [present |-> FALSE, decision_id |-> "", proposal |-> Proposal(<<>>, "plain"),
     authority |-> [present |-> FALSE, approved_by |-> "", reason |-> "",
                    scope |-> NoScope, expires_at |-> NoIso],
     created_at |-> NoIso]

\* authority_gate.py: decision_snapshot.  asdict() deep-copies every leaf
\* value, which raises for params that cannot be copied.
decision_snapshot(decision) ==
    IF decision.proposal.params = "uncopyable" THEN Raised("TypeError")
    ELSE IF decision.authority.present /\ decision.authority.expires_at.kind = "bad"
    THEN Raised("AttributeError")
    ELSE Returned(
        [present |-> TRUE,
         decision_id |-> decision.decision_id,
         proposal |-> decision.proposal,
         authority |->
            [present |-> decision.authority.present,
             approved_by |-> decision.authority.approved_by,
             reason |-> decision.authority.reason,
             scope |-> decision.authority.scope,
             expires_at |->
                IF decision.authority.present /\ decision.authority.expires_at.kind = "dt"
                THEN IsoFormat(ExpiryDt(decision.authority.expires_at))
                ELSE NoIso],
         created_at |-> IsoFormat(decision.created_at)])

\* ------------------------------------------------------- artifact exporter
INVARIANT_ID == "ABE-EXEC-001"
ENFORCEMENT_POINT == "execution.commit"

\* What the file system does to one export: every step works, mkdir fails,
\* open fails, or a write fails after the file was opened.
FsOutcomes == {"ok", "mkdir_fails", "open_fails", "write_fails"}

NoAuthorityBlock ==
    [present |-> FALSE, approved_by |-> "", scope |-> NoScope, expires_at |-> NoIso]

\* the file <decision_id>.json: missing, opened for writing but not written
\* to its end, or one complete JSON document
NoArtifact ==
    [state |-> "absent", decision_id |-> "", timestamp |-> NoIso,
     invariant_id |-> "", enforcement_point |-> "",
     execution_allowed |-> FALSE, deny_reason |-> "null",
     authority_overbroad |-> FALSE, action |-> <<>>, params |-> "plain",
     authority |-> NoAuthorityBlock]

PartialArtifact == [NoArtifact EXCEPT !.state = "partial"]

\* artifact_exporter.py: _utcnow_iso
_utcnow_iso(clock) == ReplaceUtcSuffix(IsoFormat(DateTime(clock, "utc")))

\* json.dump raises TypeError on a value it cannot encode
JsonSerializable(artifact) == artifact.params = "plain"

\* one file for every decision, whatever its decision_id
artifact_path_shared(decision_id) == "d1"

\* artifact_exporter.py: artifact_path, the file a decision_id is kept in
artifact_path(decision_id) == decision_id

\* the exception raised inside export's try block, "none" if every step works
export_failure(decision, execution_result, fs) ==
    IF fs = "mkdir_fails" THEN "OSError"
    ELSE IF decision.authority.present /\ decision.authority.expires_at.kind = "bad"
    THEN "AttributeError"
    ELSE IF fs \in {"open_fails", "write_fails"} THEN "OSError"
    ELSE IF decision.proposal.params # "plain" THEN "TypeError"
    ELSE "none"

\* export_execution_artifacts without its try/except: the failure escapes
export_raised_unguarded(decision, execution_result, fs) ==
    export_failure(decision, execution_result, fs)

\* the exception that leaves export_execution_artifacts: `except Exception:
\* return` swallows whatever the try block raised
export_raised(decision, execution_result, fs) == "none"

\* artifact_exporter.py: the artifact dict export_execution_artifacts builds
build_artifact(decision, execution_result, clock) ==
    LET authority_block ==
            IF decision.authority.present
            THEN [present |-> TRUE,
                  approved_by |-> decision.authority.approved_by,
                  scope |-> decision.authority.scope,
                  expires_at |->
                      IF decision.authority.expires_at.kind = "dt"
                      THEN ReplaceUtcSuffix(IsoFormat(ExpiryDt(decision.authority.expires_at)))
                      ELSE NoIso]
            ELSE NoAuthorityBlock
    IN  [state |-> "complete",
         decision_id |-> decision.decision_id,
         timestamp |-> _utcnow_iso(clock),
         invariant_id |-> INVARIANT_ID,
         enforcement_point |-> ENFORCEMENT_POINT,
         execution_allowed |-> execution_result.execution_allowed,
         deny_reason |-> execution_result.deny_reason,
         authority_overbroad |-> execution_result.authority_overbroad,
         action |-> decision.proposal.action,
         params |-> decision.proposal.params,
         authority |-> authority_block]

\* the file opened with mode "x": an existing artifact is never replaced
export_execution_artifacts_create_only(decision, execution_result, clock, fs, previous) ==
    LET artifact == build_artifact(decision, execution_result, clock)
    IN  IF fs = "mkdir_fails" THEN previous
        ELSE IF decision.authority.present /\ decision.authority.expires_at.kind = "bad"
        THEN previous
        ELSE IF fs = "open_fails" \/ previous.state # "absent" THEN previous
        ELSE IF fs = "write_fails" \/ ~JsonSerializable(artifact) THEN PartialArtifact
        ELSE artifact

\* artifact_exporter.py: export_execution_artifacts, as the new content of
\* the file of decision.decision_id given its previous content.  Every
\* exception is swallowed; open("w") truncates before json.dump writes.
export_execution_artifacts(decision, execution_result, clock, fs, previous) ==
    LET artifact == build_artifact(decision, execution_result, clock)
    IN  IF fs = "mkdir_fails" THEN previous
        ELSE IF decision.authority.present /\ decision.authority.expires_at.kind = "bad"
        THEN previous
        ELSE IF fs = "open_fails" THEN previous
        ELSE IF fs = "write_fails" \/ ~JsonSerializable(artifact) THEN PartialArtifact
        ELSE artifact

\* ---------------------------------------------------------------- executor
NoResult ==
    [raised |-> "none", status |-> "", execution_allowed |-> FALSE,
     deny_reason |-> "null", message |-> "", decision_id |-> "",
     action |-> <<>>, params |-> "absent", authority_overbroad |-> FALSE,
     invariant_id |-> "", enforcement_point |-> "",
     decision_snapshot |-> NoSnapshot]

\* the call did not return: the exception left execute
Propagated(exc) == [NoResult EXCEPT !.raised = exc]

\* a blocked result that reports the breadth of the authority it denied
Blocked_overbroad(decision, deny_reason, message) ==
    [NoResult EXCEPT
        !.status = "blocked",
        !.deny_reason = deny_reason,
        !.message = message,
        !.decision_id = decision.decision_id,
        !.action = decision.proposal.action,
        !.authority_overbroad =
            (decision.authority.present /\ decision.authority.scope.kind = "none"),
        !.invariant_id = INVARIANT_ID,
        !.enforcement_point = ENFORCEMENT_POINT]

Blocked(decision, deny_reason, message) ==
    [NoResult EXCEPT
        !.status = "blocked",
        !.deny_reason = deny_reason,
        !.message = message,
        !.decision_id = decision.decision_id,
        !.action = decision.proposal.action,
        !.invariant_id = INVARIANT_ID,
        !.enforcement_point = ENFORCEMENT_POINT]

Executed(decision, snapshot) ==
    [NoResult EXCEPT
        !.status = "executed",
        !.execution_allowed = TRUE,
        !.decision_id = decision.decision_id,
        !.action = decision.proposal.action,
        !.params = decision.proposal.params,
        !.authority_overbroad =
            (decision.authority.present /\ decision.authority.scope.kind = "none"),
        !.invariant_id = INVARIANT_ID,
        !.enforcement_point = ENFORCEMENT_POINT,
        !.decision_snapshot = snapshot]

\* execute handing the exporter a result that reports the attempt as allowed
export_calls_allowed(result) ==
    IF result.raised = "none"
    THEN <<[result EXCEPT !.execution_allowed = TRUE, !.deny_reason = "null"]>>
    ELSE <<>>

\* executor.py: execute, the results it passes to export_execution_artifacts,
\* in call order: one call at the end of each branch that builds a result
export_calls(result) == IF result.raised = "none" THEN <<result>> ELSE <<>>

\* executor.py: execute, the value returned (or the exception propagated);
\* only the three gate exceptions have an except clause.
execute(decision, clock) ==
    LET gate == enforce_authority(decision, DateTime(clock, "utc"))
        snapshot == decision_snapshot(decision)
    IN  IF gate.exc = "none"
        THEN IF snapshot.exc # "none"
             THEN Propagated(snapshot.exc)
             ELSE Executed(decision, snapshot.value)
        ELSE IF gate.exc = "AuthorityMissing"
        THEN Blocked(decision, "missing_authority", gate.message)
        ELSE IF gate.exc = "AuthorityExpired"
        THEN Blocked(decision, "expired_authority", gate.message)
        ELSE IF gate.exc = "AuthorityScopeViolation"
        THEN Blocked(decision, "scope_violation", gate.message)
        ELSE Propagated(gate.exc)

\* --------------------------------------------------- authority bindings
\* list(scope): a list is copied, a str is split into its characters, a
\* value that is not iterable raises TypeError.
ListOf(scope) ==
    IF scope.kind = "bad" THEN Raised("TypeError")
    ELSE IF scope.kind = "str"
    THEN Returned(ListScope([i \in 1..Len(scope.str) |-> <<scope.str[i]>>]))
    ELSE Returned(ListScope(scope.items))

\* bind_authority attaching the authority to the decision it was given
bind_authority_in_place(decision, approved_by, reason, scope, ttl_seconds, clock) ==
    LET expires_at == ExpiryAt(DateTime(clock + ttl_seconds, "utc"))
        listed == ListOf(scope)
        bound == Decision(
                  decision.proposal,
                  Authority(approved_by, reason,
                            IF scope.kind = "none" THEN NoScope ELSE listed.value,
                            expires_at),
                  decision.decision_id,
                  decision.created_at)
    IN  IF scope.kind # "none" /\ listed.exc # "none"
        THEN [exc |-> listed.exc, argument |-> decision, value |-> decision]
        ELSE [exc |-> "none", argument |-> bound, value |-> bound]

\* authority_bindings.py: bind_authority.  `argument` is the state of the
\* decision passed in once the call is over, `value` the decision returned.
bind_authority(decision, approved_by, reason, scope, ttl_seconds, clock) ==
    LET expires_at == ExpiryAt(DateTime(clock + ttl_seconds, "utc"))
        listed == ListOf(scope)
    IN  IF scope.kind # "none" /\ listed.exc # "none"
        THEN [exc |-> listed.exc, argument |-> decision, value |-> decision]
        ELSE [exc |-> "none",
              argument |-> decision,
              value |-> Decision(
                  decision.proposal,
                  Authority(approved_by, reason,
                            IF scope.kind = "none" THEN NoScope ELSE listed.value,
                            expires_at),
                  decision.decision_id,
                  decision.created_at)]

\* ------------------------------------------------------------ input sets
ScopeInputs ==
    {NoScope, BadScope, ListScope(<<DeployModel>>), StrScope(DeployModel)}

ExpiryInputs ==
    {NoExpiry, BadExpiry}
        \cup {ExpiryAt(DateTime(w, tz)) : w \in ExpiryWalls, tz \in TzKinds}

AuthorityInputs ==
    {NoAuthority}
        \cup {Authority(a, r, s, e) :
                a \in Approvers, r \in Reasons, s \in ScopeInputs, e \in ExpiryInputs}

CreatedAts == {DateTime(0, "utc")}

\* ------------------------------------------------------------------ state
\* now          the wall clock, in ticks
\* decisions    the Decision objects the caller holds: decisions[1] is the
\*              one it constructed, decisions[2] the one bind_authority
\*              returned for it
\* artifacts    the file <decision_id>.json under ARTIFACT_ROOT
\* last         the most recent call of the core and what it returned
\* expired_seen the decisions an execute has denied as expired so far
NoBindArgs == [approved_by |-> "", reason |-> "", scope |-> NoScope, ttl_seconds |-> 0]

NoCall ==
    [op |-> "none", d |-> 0, at |-> 0, exc |-> "none",
     result |-> NoResult, args |-> NoBindArgs,
     nowdt |-> DateTime(0, "utc"), value |-> FALSE,
     exports |-> <<>>, export_failure |-> "none", mode |-> "working",
     ret |-> 0, before |-> 0, tracer_used |-> FALSE]

\* -------------------------------------------------------------- evaluation
\* A Counter and the dict made of it are kept as their (key, count) pairs
\* in insertion order; a float quotient of two small integers is kept as
\* the fraction in lowest terms it is the nearest float of.
RECURSIVE Gcd(_, _)
Gcd(a, b) == IF b = 0 THEN a ELSE Gcd(b, a % b)

\* allowed / total, and the literal 0.0
TrueDivide(a, b) == [num |-> a \div Gcd(a, b), den |-> b \div Gcd(a, b)]

ZeroFloat == [num |-> 0, den |-> 1]

\* deny_reasons[key] += 1
Increment(counter, key) ==
    IF \E k \in DOMAIN counter : counter[k].key = key
    THEN [k \in DOMAIN counter |->
            IF counter[k].key = key
            THEN [counter[k] EXCEPT !.count = @ + 1] ELSE counter[k]]
    ELSE Append(counter, [key |-> key, count |-> 1])

\* evaluation.py: the locals of evaluate_decision_runs before the loop
NoTally == [allowed |-> 0, denied |-> 0, overbroad |-> 0, deny_reasons |-> <<>>]

\* evaluation.py: the loop of evaluate_decision_runs over results
RECURSIVE Tally(_)
Tally(rs) ==
    IF rs = <<>> THEN NoTally
    ELSE LET t == Tally(SubSeq(rs, 1, Len(rs) - 1))
             r == rs[Len(rs)]
             counted ==
                IF r.execution_allowed
                THEN [t EXCEPT !.allowed = @ + 1]
                ELSE [t EXCEPT !.denied = @ + 1,
                               !.deny_reasons = Increment(@, r.deny_reason)]
         IN  IF r.authority_overbroad
             THEN [counted EXCEPT !.overbroad = @ + 1] ELSE counted

\* evaluate_decision_runs dividing as integers (allowed // total)
evaluate_decision_runs_floor_rate(rs) ==
    LET t == Tally(rs)
    IN  [total_attempts |-> Len(rs),
         allowed |-> t.allowed,
         denied |-> t.denied,
         allow_rate |-> IF Len(rs) # 0
                        THEN [num |-> t.allowed \div Len(rs), den |-> 1]
                        ELSE ZeroFloat,
         deny_breakdown |-> t.deny_reasons,
         overbroad_authority_used |-> t.overbroad]

\* evaluate_decision_runs counting the reason of every result, allowed ones
\* included
evaluate_decision_runs_all_reasons(rs) ==
    LET t == Tally(rs)
        RECURSIVE CountAll(_)
        CountAll(n) == IF n = 0 THEN <<>>
                       ELSE Increment(CountAll(n - 1), rs[n].deny_reason)
    IN  [total_attempts |-> Len(rs),
         allowed |-> t.allowed,
         denied |-> t.denied,
         allow_rate |-> IF Len(rs) # 0 THEN TrueDivide(t.allowed, Len(rs))
                        ELSE ZeroFloat,
         deny_breakdown |-> CountAll(Len(rs)),
         overbroad_authority_used |-> t.overbroad]

\* evaluate_decision_runs reporting only the reason it met first
evaluate_decision_runs_first_reason(rs) ==
    LET t == Tally(rs)
    IN  [total_attempts |-> Len(rs),
         allowed |-> t.allowed,
         denied |-> t.denied,
         allow_rate |-> IF Len(rs) # 0 THEN TrueDivide(t.allowed, Len(rs))
                        ELSE ZeroFloat,
         deny_breakdown |-> IF t.deny_reasons = <<>> THEN <<>>
                            ELSE <<t.deny_reasons[1]>>,
         overbroad_authority_used |-> t.overbroad]

\* evaluation.py: evaluate_decision_runs
evaluate_decision_runs(rs) ==
    LET t == Tally(rs)
    IN  [total_attempts |-> Len(rs),
         allowed |-> t.allowed,
         denied |-> t.denied,
         allow_rate |-> IF Len(rs) # 0 THEN TrueDivide(t.allowed, Len(rs))
                        ELSE ZeroFloat,
         deny_breakdown |-> t.deny_reasons,
         overbroad_authority_used |-> t.overbroad]

\* no summary computed yet
NoSummary == [done |-> FALSE, of |-> <<>>, value |-> evaluate_decision_runs(<<>>)]

\* no export in flight, nothing on the raw disk, no wrapped function
NoFn == [kind |-> "none", calls |-> 0]

InitAux ==
    /\ inflight = <<>>
    /\ disk = <<>>
    /\ fn = NoFn
    /\ results = <<>>
    /\ summary = NoSummary

Init ==
    /\ now = 0
    /\ decisions = <<>>
    /\ artifacts = [id \in DecisionIds |-> NoArtifact]
    /\ last = NoCall
    /\ expired_seen = {}
    /\ InitAux

\* The caller constructs a Decision, with no authority (the documented
\* lifecycle) or with an Authority it built itself (as the demos do).  A
\* run follows one decision: the one constructed and, once bind_authority
\* was called on it, the one that call returned.
NewDecision(decision_id, action, params, authority, created_at) ==
    /\ decisions = <<>>
    /\ decisions' = <<Decision(Proposal(action, params), authority,
                                decision_id, created_at)>>
    /\ UNCHANGED <<now, artifacts, last, expired_seen, aux>>

\* bound = bind_authority(decisions[1], ...) on a decision that carries no
\* authority yet, the caller keeping both objects
Bind(approved_by, reason, scope, ttl_seconds) ==
    /\ Len(decisions) = 1
    /\ ~decisions[1].authority.present
    /\ LET r == bind_authority(decisions[1], approved_by, reason, scope,
                               ttl_seconds, now)
       IN  /\ decisions' =
                IF r.exc = "none" THEN <<r.argument, r.value>> ELSE <<r.argument>>
           /\ last' = [NoCall EXCEPT
                          !.op = "bind", !.d = 1, !.at = now, !.exc = r.exc,
                          !.args = [approved_by |-> approved_by, reason |-> reason,
                                    scope |-> scope, ttl_seconds |-> ttl_seconds]]
    /\ UNCHANGED <<now, artifacts, expired_seen, aux>>

\* execute with a memory: an authority that already let its decision_id
\* through once is spent, and the next attempt under that id is denied
Execute_one_shot(i, fs) ==
    /\ i \in 1..Len(decisions)
    /\ LET decision == decisions[i]
           spent == /\ artifacts[decision.decision_id].state = "complete"
                    /\ artifacts[decision.decision_id].execution_allowed
           result == IF spent
                     THEN Blocked(decision, "missing_authority",
                                  "Execution blocked: no authority bound to decision")
                     ELSE execute(decision, now)
           calls == export_calls(result)
       IN  /\ last' = [NoCall EXCEPT
                          !.op = "execute", !.d = i, !.at = now,
                          !.nowdt = DateTime(now, "utc"),
                          !.exc = result.raised,
                          !.result = result,
                          !.exports = calls,
                          !.export_failure =
                              IF calls = <<>> THEN "none"
                              ELSE export_failure(decision, result, fs)]
           /\ artifacts' =
                IF calls = <<>> THEN artifacts
                ELSE [artifacts EXCEPT ![artifact_path(decision.decision_id)] =
                        export_execution_artifacts(decision, calls[1], now, fs, @)]
           /\ expired_seen' =
                IF result.deny_reason = "expired_authority"
                THEN expired_seen \cup {i} ELSE expired_seen
    /\ UNCHANGED <<now, decisions, aux>>

\* result = execute(decisions[i]) with the file system behaving as fs; an
\* exception leaving export would leave execute in place of the result
Execute(i, fs) ==
    /\ i \in 1..Len(decisions)
    /\ LET decision == decisions[i]
           result == execute(decision, now)
           calls == export_calls(result)
           escaped == IF calls = <<>> THEN result.raised
                      ELSE export_raised(decision, result, fs)
       IN  /\ last' = [NoCall EXCEPT
                          !.op = "execute", !.d = i, !.at = now,
                          !.nowdt = DateTime(now, "utc"),
                          !.exc = escaped,
                          !.result = IF escaped = "none" THEN result
                                     ELSE Propagated(escaped),
                          !.exports = calls,
                          !.export_failure =
                              IF calls = <<>> THEN "none"
                              ELSE export_failure(decision, result, fs)]
           /\ artifacts' =
                IF calls = <<>> THEN artifacts
                ELSE [artifacts EXCEPT ![artifact_path(decision.decision_id)] =
                        export_execution_artifacts(decision, calls[1], now, fs, @)]
           /\ expired_seen' =
                IF result.deny_reason = "expired_authority"
                THEN expired_seen \cup {i} ELSE expired_seen
    /\ UNCHANGED <<now, decisions, aux>>

\* time passes
Tick ==
    /\ now < MaxClock
    /\ now' = now + 1
    /\ UNCHANGED <<decisions, artifacts, last, expired_seen, aux>>

Next ==
    \/ \E id \in DecisionIds, a \in ActionNames, p \in ParamKinds,
          au \in AuthorityInputs, c \in CreatedAts :
            NewDecision(id, a, p, au, c)
    \/ \E a \in Approvers, r \in Reasons, s \in ScopeInputs, t \in Ttls :
            Bind(a, r, s, t)
    \/ \E i \in DOMAIN decisions, fs \in FsOutcomes : Execute(i, fs)
    \/ Tick

Spec == Init /\ [][Next]_vars

\* ------------------------------------------- is_expired called directly
\* the datetimes a caller may pass as `now`: naive or aware, any zone
NowInputs == {DateTime(w, tz) : w \in 0..MaxClock, tz \in TzKinds}

\* The caller holds one decision with an authority of its own making.
InitExpiry ==
    /\ now = 0
    /\ decisions \in
            {<<Decision(Proposal(DeployModel, "plain"), au, id, c)>> :
                au \in AuthorityInputs \ {NoAuthority},
                id \in DecisionIds, c \in CreatedAts}
    /\ artifacts = [id \in DecisionIds |-> NoArtifact]
    /\ last = NoCall
    /\ expired_seen = {}
    /\ InitAux

\* decisions[i].authority.is_expired(nowdt)
IsExpired(i, nowdt) ==
    /\ i \in 1..Len(decisions)
    /\ decisions[i].authority.present
    /\ LET r == is_expired(decisions[i].authority, nowdt)
       IN  last' = [NoCall EXCEPT
                      !.op = "is_expired", !.d = i, !.at = now,
                      !.nowdt = nowdt, !.exc = r.exc, !.value = r.value]
    /\ UNCHANGED <<now, decisions, artifacts, expired_seen, aux>>

NextExpiry ==
    \/ \E i \in DOMAIN decisions, nowdt \in NowInputs : IsExpired(i, nowdt)
    \/ \E i \in DOMAIN decisions, fs \in FsOutcomes : Execute(i, fs)
    \/ Tick

SpecExpiry == InitExpiry /\ [][NextExpiry]_vars

\* ------------------------------------------------- artifacts of several ids
\* The scenario of run_demo.py: a base decision without authority, the same
\* decision with authority bound (same decision_id), and a second decision
\* that reuses that authority under its own decision_id; each is executed
\* any number of times while the clock advances.
ArtifactIds == {"d1", "d2"}

DemoAuthorities ==
    {Authority("lead", "ok", s, e) :
        s \in {NoScope, StrScope(DeployModel), ListScope(<<DeployModel>>)},
        e \in {NoExpiry, ExpiryAt(DateTime(2, "utc"))}}

InitArtifacts ==
    /\ now = 0
    /\ \E params \in ParamKinds, authority \in DemoAuthorities :
         decisions =
            << Decision(Proposal(DeployModel, params), NoAuthority, "d1",
                        DateTime(0, "utc")),
               Decision(Proposal(DeployModel, params), authority, "d1",
                        DateTime(0, "utc")),
               Decision(Proposal(<<"x">>, "plain"), authority, "d2",
                        DateTime(0, "utc")) >>
    /\ artifacts = [id \in ArtifactIds |-> NoArtifact]
    /\ last = NoCall
    /\ expired_seen = {}
    /\ InitAux

NextArtifacts ==
    \/ \E i \in 1..3, fs \in FsOutcomes : Execute(i, fs)
    \/ Tick

SpecArtifacts == InitArtifacts /\ [][NextArtifacts]_vars

\* ------------------------------------------------------ concurrent exports
\* Several execute calls on one decision run concurrently (threads or
\* processes).  Each export opens <decision_id>.json with mode "w", which
\* truncates the file and gives the call its own file position; json.dump
\* then reaches the file as a sequence of blocks, each written at the call's
\* own position; the file is closed.  No lock is taken at any point.
\*   inflight[w]  the position of call w: its pc, its file position and the
\*                number of blocks its document takes
\*   disk         the blocks of <decision_id>.json
MaxWriters == 3
MaxBlocks == 2

Writers == 1..MaxWriters

\* the zero bytes a write beyond the end of the file leaves before it
Hole == [writer |-> 0, block |-> 0]

\* the JSON document call w serializes, block by block
DocumentOf(w) == [b \in 1..inflight[w].blocks |-> [writer |-> w, block |-> b]]

\* write(2) of one block at position pos (counted from 0) of the file
WriteAt(file, pos, data) ==
    [p \in 1..(IF pos + 1 > Len(file) THEN pos + 1 ELSE Len(file)) |->
        IF p = pos + 1 THEN data
        ELSE IF p <= Len(file) THEN file[p]
        ELSE Hole]

InitRace ==
    /\ now = 0
    /\ decisions = << Decision(Proposal(DeployModel, "plain"),
                               Authority("lead", "ok", NoScope, NoExpiry),
                               "d1", DateTime(0, "utc")) >>
    /\ artifacts = [id \in DecisionIds |-> NoArtifact]
    /\ last = NoCall
    /\ expired_seen = {}
    /\ inflight \in [Writers ->
            {[pc |-> "ready", pos |-> 0, blocks |-> n] : n \in 1..MaxBlocks}]
    /\ disk = <<>>
    /\ fn = NoFn
    /\ results = <<>>
    /\ summary = NoSummary

\* artifact_path.open("w", encoding="utf-8")
OpenArtifact(w) ==
    /\ inflight[w].pc = "ready"
    /\ inflight' = [inflight EXCEPT ![w].pc = "open", ![w].pos = 0]
    /\ disk' = <<>>
    /\ UNCHANGED <<now, decisions, artifacts, last, expired_seen, fn, results, summary>>

\* json.dump(artifact, f, ...): the next block reaches the file
WriteBlock(w) ==
    /\ inflight[w].pc = "open"
    /\ inflight[w].pos < inflight[w].blocks
    /\ disk' = WriteAt(disk, inflight[w].pos, DocumentOf(w)[inflight[w].pos + 1])
    /\ inflight' = [inflight EXCEPT ![w].pos = @ + 1]
    /\ UNCHANGED <<now, decisions, artifacts, last, expired_seen, fn, results, summary>>

\* the with block is left: the file is closed
CloseArtifact(w) ==
    /\ inflight[w].pc = "open"
    /\ inflight[w].pos = inflight[w].blocks
    /\ inflight' = [inflight EXCEPT ![w].pc = "closed"]
    /\ UNCHANGED <<now, decisions, artifacts, last, expired_seen, disk, fn,
                   results, summary>>

NextRace ==
    \E w \in Writers : OpenArtifact(w) \/ WriteBlock(w) \/ CloseArtifact(w)

SpecRace == InitRace /\ [][NextRace]_vars

\* ------------------------------------------------------------------ tracing
\* A function wrapped by trace_if_enabled is called under each tracing
\* mode, and execute is called through the @track decorator executor.py
\* puts on it.  opik is an external library: its behaviour is one of the
\* modes below.
\*   fn   the wrapped function: its kind and how often it has been invoked
MaxCalls == 4

\* constant returns 7; raising always raises ValueError; counter returns
\* the number of its invocations; flaky raises on its first invocation only
FnKinds == {"constant", "raising", "counter", "flaky"}

\* ABE_ENABLE_OBSERVABILITY unset; set with opik.track working; set with
\* opik not importable; set with track raising before fn is reached; set
\* with the traced function raising after fn has returned
TraceModes == {"disabled", "working", "unavailable", "raises_before", "raises_after"}

Outcome(exc, value, calls, tracer_used) ==
    [exc |-> exc, value |-> value, calls |-> calls, tracer_used |-> tracer_used]

\* fn(*args, **kwargs) as its invocation number calls + 1
fn_call(kind, calls) ==
    IF kind = "raising" \/ (kind = "flaky" /\ calls = 0)
    THEN Outcome("ValueError", 0, calls + 1, FALSE)
    ELSE Outcome("none", IF kind = "constant" THEN 7 ELSE calls + 1, calls + 1, FALSE)

\* observability_guard.py: observability_enabled
observability_enabled(mode) == mode # "disabled"

\* observability_guard.py: trace_if_enabled(name)(fn)(*args, **kwargs)
wrapped(mode, kind, calls) ==
    IF ~observability_enabled(mode) THEN fn_call(kind, calls)
    ELSE IF mode = "unavailable" THEN fn_call(kind, calls)
    ELSE IF mode = "raises_before"
    THEN [fn_call(kind, calls) EXCEPT !.tracer_used = TRUE]
    ELSE LET traced == fn_call(kind, calls)
         IN  IF mode = "working" /\ traced.exc = "none"
             THEN [traced EXCEPT !.tracer_used = TRUE]
             ELSE [fn_call(kind, traced.calls) EXCEPT !.tracer_used = TRUE]

\* the modes of the tracer executor.py imports, configures and applies
BoundaryModes ==
    {"working", "unavailable", "misconfigured", "raises_before", "raises_after"}

\* executor.py: what importing the module and entering the decorated
\* execute raises before the body of execute runs
boundary_failure(mode) ==
    IF mode = "unavailable" THEN "ModuleNotFoundError"
    ELSE IF mode \in {"misconfigured", "raises_before"} THEN "TracerError"
    ELSE "none"

InitTrace ==
    /\ now = 0
    /\ \E scope \in {NoScope, ListScope(<<DeployModel>>)}, action \in {DeployModel, <<"x">>} :
         decisions =
            << Decision(Proposal(action, "plain"), NoAuthority, "d1",
                        DateTime(0, "utc")),
               Decision(Proposal(action, "plain"),
                        Authority("lead", "ok", scope, ExpiryAt(DateTime(2, "utc"))),
                        "d1", DateTime(0, "utc")) >>
    /\ artifacts = [id \in DecisionIds |-> NoArtifact]
    /\ last = NoCall
    /\ expired_seen = {}
    /\ inflight = <<>>
    /\ disk = <<>>
    /\ \E kind \in FnKinds : fn = [kind |-> kind, calls |-> 0]
    /\ results = <<>>
    /\ summary = NoSummary

\* trace_if_enabled(name)(fn)() with the tracer in the given mode
TracedCall(mode) ==
    /\ fn.calls + 2 <= MaxCalls
    /\ LET out == wrapped(mode, fn.kind, fn.calls)
       IN  /\ fn' = [fn EXCEPT !.calls = out.calls]
           /\ last' = [NoCall EXCEPT
                          !.op = "traced", !.at = now, !.mode = mode,
                          !.exc = out.exc, !.ret = out.value,
                          !.before = fn.calls,
                          !.tracer_used = out.tracer_used]
    /\ UNCHANGED <<now, decisions, artifacts, expired_seen, inflight, disk,
                   results, summary>>

\* execute(decisions[i]) as a caller reaches it: through the import of
\* core.executor (from opik import ..., configure()) and the @track wrapper
ExecuteAtBoundary(i, fs, mode) ==
    /\ i \in 1..Len(decisions)
    /\ LET decision == decisions[i]
           result == execute(decision, now)
           calls == export_calls(result)
           call == [NoCall EXCEPT !.op = "execute", !.d = i, !.at = now,
                                  !.nowdt = DateTime(now, "utc"), !.mode = mode]
       IN  IF boundary_failure(mode) # "none"
           THEN /\ last' = [call EXCEPT !.exc = boundary_failure(mode),
                                        !.result = Propagated(boundary_failure(mode))]
                /\ UNCHANGED <<artifacts, expired_seen>>
           ELSE /\ last' =
                    IF mode = "raises_after"
                    THEN [call EXCEPT !.exc = "TracerError",
                                      !.result = Propagated("TracerError"),
                                      !.exports = calls,
                                      !.tracer_used = TRUE]
                    ELSE [call EXCEPT !.exc = result.raised,
                                      !.result = result,
                                      !.exports = calls,
                                      !.tracer_used = TRUE]
                /\ artifacts' =
                    IF calls = <<>> THEN artifacts
                    ELSE [artifacts EXCEPT ![artifact_path(decision.decision_id)] =
                            export_execution_artifacts(decision, calls[1], now, fs, @)]
                /\ expired_seen' =
                    IF result.deny_reason = "expired_authority"
                    THEN expired_seen \cup {i} ELSE expired_seen
    /\ UNCHANGED <<now, decisions, aux>>

NextTrace ==
    \/ \E mode \in TraceModes : TracedCall(mode)
    \/ \E i \in 1..2, fs \in {"ok", "write_fails"}, mode \in BoundaryModes :
            ExecuteAtBoundary(i, fs, mode)
    \/ Tick

SpecTrace == InitTrace /\ [][NextTrace]_vars

\* ------------------------------------------------------ evaluating a batch
\* The demos collect the results of execute in a list and hand the list to
\* evaluate_decision_runs.
\*   results   the list the caller holds
\*   summary   the last summary computed, with the list it was computed of
MaxResults == 3

\* one decision per outcome of execute at clock 0: no authority, unscoped
\* authority, authority scoped to the action, expired authority, authority
\* scoped to another action
BatchDecisions ==
    { Decision(Proposal(DeployModel, "plain"), NoAuthority, "d1", DateTime(0, "utc")),
      Decision(Proposal(DeployModel, "plain"),
               Authority("lead", "ok", NoScope, NoExpiry), "d1", DateTime(0, "utc")),
      Decision(Proposal(DeployModel, "plain"),
               Authority("lead", "ok", ListScope(<<DeployModel>>), NoExpiry),
               "d1", DateTime(0, "utc")),
      Decision(Proposal(DeployModel, "plain"),
               Authority("lead", "ok", NoScope, ExpiryAt(DateTime(0, "utc"))),
               "d1", DateTime(0, "utc")),
      Decision(Proposal(<<"x">>, "plain"),
               Authority("lead", "ok", ListScope(<<DeployModel>>), NoExpiry),
               "d1", DateTime(0, "utc")) }

InitEval ==
    /\ now = 0
    /\ decisions = <<>>
    /\ artifacts = [id \in DecisionIds |-> NoArtifact]
    /\ last = NoCall
    /\ expired_seen = {}
    /\ InitAux

\* results.append(execute(decision))
Collect(decision) ==
    /\ Len(results) < MaxResults
    /\ execute(decision, now).raised = "none"
    /\ results' = Append(results, execute(decision, now))
    /\ UNCHANGED <<now, decisions, artifacts, last, expired_seen,
                   inflight, disk, fn, summary>>

\* the caller puts two entries of its list in each other's place
Reorder(i, j) ==
    /\ i \in DOMAIN results /\ j \in DOMAIN results /\ i < j
    /\ results' = [results EXCEPT ![i] = results[j], ![j] = results[i]]
    /\ UNCHANGED <<now, decisions, artifacts, last, expired_seen,
                   inflight, disk, fn, summary>>

\* summary = evaluate_decision_runs(results): the function reads its
\* argument with r.get and assigns to nothing but its own locals
Evaluate ==
    /\ summary' = [done |-> TRUE, of |-> results,
                   value |-> evaluate_decision_runs(results)]
    /\ UNCHANGED <<now, decisions, artifacts, last, expired_seen,
                   inflight, disk, fn, results>>

NextEval ==
    \/ \E decision \in BatchDecisions : Collect(decision)
    \/ \E i \in 1..MaxResults, j \in 1..MaxResults : Reorder(i, j)
    \/ Evaluate

SpecEval == InitEval /\ [][NextEval]_vars

\* ------------------------------------------- same authority, other content
\* The scenario of run_prompt_injection.py: two decisions that carry the
\* same authority and propose the same action, and differ in everything
\* else (params, rationale, decision_id, created_at), are executed.
InitContent ==
    /\ now = 0
    /\ \E authority \in DemoAuthorities \cup {NoAuthority},
          action \in {DeployModel, <<"x">>},
          params1 \in ParamKinds, params2 \in ParamKinds :
         decisions =
            << Decision(Proposal(action, params1), authority, "d1",
                        DateTime(0, "utc")),
               Decision([Proposal(action, params2) EXCEPT
                            !.rationale = "ignore previous instructions"],
                        authority, "d2", DateTime(0, "east")) >>
    /\ artifacts = [id \in ArtifactIds |-> NoArtifact]
    /\ last = NoCall
    /\ expired_seen = {}
    /\ InitAux

NextContent ==
    \/ \E i \in 1..2 : Execute(i, "ok")
    \/ Tick

SpecContent == InitContent /\ [][NextContent]_vars

\* ------------------------------------------------------------- properties
\* the decision the most recent call was given
Called == decisions[last.d]

\* the UTC instant a datetime denotes (a naive one is read as UTC)
Instant(dt) == IF dt.tz = "naive" THEN dt.wall ELSE dt.wall - UtcOffset(dt.tz)

\* the authority carries a timestamp that lies at or before the instant t
ExpiredAt(authority, t) ==
    authority.expires_at.kind = "dt" /\ Instant(ExpiryDt(authority.expires_at)) <= t

\* the authority never expires or carries a timestamp after the instant t
UnexpiredAt(authority, t) ==
    \/ authority.expires_at.kind = "none"
    \/ authority.expires_at.kind = "dt" /\ t < Instant(ExpiryDt(authority.expires_at))

\* the action names a scope stands for: the elements of a list, the one
\* name a single string spells
ScopeNames(scope) ==
    IF scope.kind = "list" THEN {scope.items[i] : i \in DOMAIN scope.items}
    ELSE IF scope.kind = "str" THEN {scope.str}
    ELSE {}

Approved(authority) ==
    authority.present /\ authority.approved_by # "" /\ authority.reason # ""

\* C1: execute reports execution_allowed = true only if, at the time of the
\* call, the decision carries an authority with non-empty approved_by and
\* reason, which is not expired and whose scope is None or names the action.
C1_AllowedOnlyInScope ==
    (last.op = "execute" /\ last.result.execution_allowed) =>
        /\ Approved(Called.authority)
        /\ UnexpiredAt(Called.authority, last.at)
        /\ \/ Called.authority.scope.kind = "none"
           \/ Called.proposal.action \in ScopeNames(Called.authority.scope)

\* C2: every execute call returns a structured result; no exception
\* propagates to the caller, whatever the decision and the exporter do.
C2_ExecuteTotal ==
    last.op = "execute" =>
        /\ last.exc = "none"
        /\ last.result.status \in {"executed", "blocked"}

\* C3: a decision with no authority is denied with missing_authority, at
\* any time and whatever its proposal.
C3_NoAuthorityDenied ==
    (last.op = "execute" /\ ~Called.authority.present) =>
        /\ last.exc = "none"
        /\ last.result.status = "blocked"
        /\ ~last.result.execution_allowed
        /\ last.result.deny_reason = "missing_authority"

C3_Witness ==
    /\ last.op = "execute"
    /\ ~Called.authority.present
    /\ Called.proposal.params = "uncopyable"
    /\ last.at > 0
    /\ last.result.deny_reason = "missing_authority"

\* C4 as stated: expires_at <= now gives expired_authority whatever the
\* approver, the reason and the scope are.
C4_ExpiredWhateverApprover ==
    (last.op = "execute" /\ Called.authority.present
        /\ ExpiredAt(Called.authority, last.at)) =>
            last.result.deny_reason = "expired_authority"

\* C4 amended: when approved_by and reason are non-empty, expires_at <= now
\* gives a blocked result with expired_authority, whatever the scope is.
C4_ExpiredWhateverScope ==
    (last.op = "execute" /\ Approved(Called.authority)
        /\ ExpiredAt(Called.authority, last.at)) =>
            /\ last.exc = "none"
            /\ last.result.status = "blocked"
            /\ ~last.result.execution_allowed
            /\ last.result.deny_reason = "expired_authority"

C4_Witness ==
    /\ last.op = "execute"
    /\ Approved(Called.authority)
    /\ ExpiredAt(Called.authority, last.at)
    /\ Called.authority.scope.kind = "list"
    /\ Called.proposal.action \notin ScopeNames(Called.authority.scope)
    /\ last.result.deny_reason = "expired_authority"

\* C5: a non-null scope that does not name proposal.action gives
\* deny_reason = scope_violation.
C5_OutOfScopeDenied ==
    (last.op = "execute" /\ Called.authority.present
        /\ Called.authority.scope.kind # "none"
        /\ Called.proposal.action \notin ScopeNames(Called.authority.scope)) =>
            last.result.deny_reason = "scope_violation"

\* C6: valid, unexpired authority whose scope is None or names the action
\* gives an executed result: execution_allowed true, deny_reason null and
\* authority_overbroad = (scope is None).
C6_ValidExecuted ==
    (last.op = "execute" /\ Approved(Called.authority)
        /\ UnexpiredAt(Called.authority, last.at)
        /\ \/ Called.authority.scope.kind = "none"
           \/ Called.proposal.action \in ScopeNames(Called.authority.scope)) =>
            /\ last.exc = "none"
            /\ last.result.status = "executed"
            /\ last.result.execution_allowed
            /\ last.result.deny_reason = "null"
            /\ last.result.authority_overbroad = (Called.authority.scope.kind = "none")

\* C7: the gate checks presence, approver, reason, expiry and scope in this
\* order and reports the first check that fails, whatever later checks
\* would have said.
C7_FirstFailingCheck ==
    last.op = "execute" =>
        LET a == Called.authority
            r == last.result
        IN  /\ ~a.present =>
                /\ r.deny_reason = "missing_authority"
                /\ r.message = "Execution blocked: authority not bound"
            /\ (a.present /\ a.approved_by = "") =>
                /\ r.deny_reason = "missing_authority"
                /\ r.message = "Execution blocked: authority missing approver"
            /\ (a.present /\ a.approved_by # "" /\ a.reason = "") =>
                /\ r.deny_reason = "missing_authority"
                /\ r.message = "Execution blocked: authority missing justification"
            /\ (Approved(a) /\ ExpiredAt(a, last.at)) =>
                r.deny_reason = "expired_authority"
            /\ (Approved(a) /\ UnexpiredAt(a, last.at) /\ r.status = "blocked") =>
                /\ r.deny_reason = "scope_violation"
                /\ a.scope.kind # "none"
                /\ Called.proposal.action \notin ScopeNames(a.scope)
            /\ (Approved(a) /\ UnexpiredAt(a, last.at) /\ a.scope.kind = "list"
                    /\ Called.proposal.action \notin ScopeNames(a.scope)) =>
                r.deny_reason = "scope_violation"

C7_Witness ==
    /\ last.op = "execute"
    /\ Called.authority.present
    /\ Called.authority.approved_by = ""
    /\ ExpiredAt(Called.authority, last.at)
    /\ Called.authority.scope.kind = "list"
    /\ Called.proposal.action \notin ScopeNames(Called.authority.scope)
    /\ last.result.deny_reason = "missing_authority"

\* C8: is_expired(now) is true exactly when expires_at is a timestamp and
\* now lies at or after it, both read in UTC; an execute at the expiry
\* instant itself is denied, and an authority with expires_at = None is
\* never expired.
C8_ExpiryInclusive ==
    LET e == Called.authority.expires_at
    IN  /\ (last.op = "is_expired" /\ e.kind # "bad") =>
                /\ last.exc = "none"
                /\ last.value
                    <=> (e.kind = "dt" /\ Instant(last.nowdt) >= Instant(ExpiryDt(e)))
        /\ (last.op = "execute" /\ Approved(Called.authority) /\ e.kind # "bad") =>
                /\ (last.result.deny_reason = "expired_authority")
                    <=> (e.kind = "dt" /\ last.at >= Instant(ExpiryDt(e)))
                /\ (e.kind = "dt" /\ last.at = Instant(ExpiryDt(e))) =>
                        (last.exc = "none" /\ ~last.result.execution_allowed)
                /\ e.kind = "none" => last.result.deny_reason # "expired_authority"

C8_Witness ==
    /\ last.op = "is_expired"
    /\ Called.authority.expires_at.kind = "dt"
    /\ Called.authority.expires_at.tz = "east"
    /\ last.nowdt.tz = "naive"
    /\ Instant(last.nowdt) = Instant(ExpiryDt(Called.authority.expires_at))
    /\ last.value

\* C9: a decision with valid approver, reason and scope and a finite
\* expires_at, executed again and again while the clock advances, is allowed
\* before expires_at and denied with expired_authority from expires_at on;
\* once denied as expired it is never allowed again.
C9_EvaluatedAtExecution ==
    (last.op = "execute" /\ Approved(Called.authority)
        /\ Called.authority.expires_at.kind = "dt"
        /\ \/ Called.authority.scope.kind = "none"
           \/ Called.proposal.action \in ScopeNames(Called.authority.scope)) =>
        /\ last.at < Instant(ExpiryDt(Called.authority.expires_at)) =>
                (last.exc = "none" /\ last.result.execution_allowed)
        /\ last.at >= Instant(ExpiryDt(Called.authority.expires_at)) =>
                last.result.deny_reason = "expired_authority"
        /\ last.d \in expired_seen => ~last.result.execution_allowed

\* C10: bind_authority leaves the decision it is given as it was and
\* returns a new decision with the same decision_id, proposal and
\* created_at that carries the authority built from the arguments; blank
\* approver or reason and a ttl of zero or less are accepted at bind time,
\* and the decision so bound is never allowed by execute.
C10_BindPure ==
    /\ [][(last'.op = "bind" /\ last' # last) =>
            /\ decisions'[1] = decisions[1]
            /\ last'.args.scope.kind # "bad" => last'.exc = "none"
            /\ last'.exc = "none" =>
                /\ Len(decisions') = 2
                /\ decisions'[2].decision_id = decisions[1].decision_id
                /\ decisions'[2].proposal = decisions[1].proposal
                /\ decisions'[2].created_at = decisions[1].created_at
                /\ decisions'[2].authority.present
                /\ decisions'[2].authority.approved_by = last'.args.approved_by
                /\ decisions'[2].authority.reason = last'.args.reason
                /\ decisions'[2].authority.expires_at =
                        ExpiryAt(DateTime(now + last'.args.ttl_seconds, "utc"))
                /\ (decisions'[2].authority.scope.kind = "none")
                        <=> (last'.args.scope.kind = "none")
            /\ last'.exc # "none" => decisions' = decisions]_vars
    /\ [](Len(decisions) = 2 => ~decisions[1].authority.present)
    /\ []((last.op = "execute" /\ last.d = 2
            /\ \/ Called.authority.approved_by = ""
               \/ Called.authority.reason = ""
               \/ ExpiredAt(Called.authority, last.at)) =>
                    (last.exc = "none" /\ last.result.status = "blocked"))

C10_Witness ==
    /\ last.op = "bind"
    /\ last.exc = "none"
    /\ last.args.approved_by = ""
    /\ last.args.ttl_seconds <= 0
    /\ Len(decisions) = 2
    /\ ~decisions[1].authority.present
    /\ decisions[2].authority.approved_by = ""

\* C11: under a scope that is not None, execute allows the action only if it
\* equals one of the scope's action names; with an approved, unexpired
\* authority every other action string (the empty one, a fragment of the one
\* name a single-string scope spells) is denied with scope_violation.
C11_ScopeByName ==
    (last.op = "execute" /\ Approved(Called.authority)
        /\ UnexpiredAt(Called.authority, last.at)
        /\ Called.authority.scope.kind \in {"list", "str"}) =>
            /\ last.result.execution_allowed =>
                 Called.proposal.action \in ScopeNames(Called.authority.scope)
            /\ Called.proposal.action \notin ScopeNames(Called.authority.scope) =>
                 /\ last.result.status = "blocked"
                 /\ last.result.deny_reason = "scope_violation"

\* C12: every execute call invokes export_execution_artifacts exactly once,
\* after the gate has decided and before it returns, and passes it the very
\* result it then returns.
C12_ExportOncePerCall ==
    last.op = "execute" =>
        /\ Len(last.exports) = 1
        /\ last.exc = "none"
        /\ last.exports[1] = last.result

\* C13: export never raises: a failure inside it (directory, permission,
\* serialization) is swallowed, and execute returns the result it built
\* before the export, the same whether the export succeeded or failed.
C13_ExportNeverRaises ==
    (last.op = "execute" /\ last.exports # <<>>) =>
        /\ last.exc = "none"
        /\ last.result = last.exports[1]
        /\ last.result = execute(Called, last.at)
        /\ last.result.status \in {"executed", "blocked"}

\* an export failed on the file system and the call still returned executed
C13_Witness ==
    /\ last.op = "execute"
    /\ last.export_failure \in {"OSError", "TypeError"}
    /\ last.exc = "none"
    /\ last.result.status = "executed"
    /\ artifacts[Called.decision_id].state # "complete"

\* the artifact is the complete document of the call that executed decision
\* at the clock value at and returned result
WrittenBy(artifact, decision, result, at) ==
    /\ artifact.state = "complete"
    /\ artifact.decision_id = decision.decision_id
    /\ artifact.timestamp.wall = at
    /\ artifact.execution_allowed = result.execution_allowed
    /\ artifact.deny_reason = result.deny_reason
    /\ artifact.action = decision.proposal.action
    /\ artifact.authority.present = decision.authority.present

\* the most recent call is an execute whose export went through
Exported(call) ==
    call.op = "execute" /\ call.exports # <<>> /\ call.export_failure = "none"

\* C14: artifacts are keyed by decision_id and overwritten: once an execute
\* whose export succeeds is the most recent call, the artifact stored under
\* its decision_id is the one that call wrote, whatever was stored before,
\* and the artifacts of the other decision_ids are as they were.
C14_LastExportWins ==
    [][Exported(last') =>
         LET decision == decisions'[last'.d]
         IN  /\ WrittenBy(artifacts'[decision.decision_id], decision,
                          last'.result, last'.at)
             /\ \A id \in DOMAIN artifacts \ {decision.decision_id} :
                    artifacts'[id] = artifacts[id]]_vars

\* the artifact of d1 was written by a call later than, and with another
\* outcome than, the call that wrote the artifact of d2
C14_Witness ==
    /\ Exported(last)
    /\ Called.decision_id = "d1"
    /\ last.d = 1
    /\ 2 \in expired_seen
    /\ artifacts["d2"].state = "complete"
    /\ artifacts["d2"].timestamp.wall < last.at
    /\ WrittenBy(artifacts["d1"], Called, last.result, last.at)

C16_OneWholeDocument ==
    (\A w \in DOMAIN inflight : inflight[w].pc = "closed") =>
        \E w \in DOMAIN inflight : disk = DocumentOf(w)

\* the decision carries what the gate asks for at the instant t
ValidAt(decision, t) ==
    /\ Approved(decision.authority)
    /\ UnexpiredAt(decision.authority, t)
    /\ \/ decision.authority.scope.kind = "none"
       \/ decision.proposal.action \in ScopeNames(decision.authority.scope)

\* C17: execute keeps no state between calls: what a call gives is fixed by
\* its decision and the clock value, whatever calls came before it; a denial
\* does not block a later valid attempt, and an allowed execution does not
\* use up the authority, which lets the same decision through again for as
\* long as it is unexpired.
C17_NoStateBetweenCalls ==
    /\ [](last.op = "execute" => last.result = execute(Called, last.at))
    /\ [][(last.op = "execute" /\ last'.op = "execute") =>
            /\ (last'.d = last.d /\ last'.at = last.at) =>
                   last'.result = last.result
            /\ (last.result.execution_allowed /\ last'.d = last.d
                    /\ UnexpiredAt(decisions'[last'.d].authority, last'.at)) =>
                   last'.result.execution_allowed
            /\ (~last.result.execution_allowed
                    /\ ValidAt(decisions'[last'.d], last'.at)) =>
                   last'.result.status # "blocked"]_vars

\* a decision allowed once before: denied calls and an export came in
\* between, and it is allowed again at a later clock value
C17_Witness ==
    /\ last.op = "execute"
    /\ last.d = 2
    /\ last.at > 0
    /\ last.result.execution_allowed
    /\ artifacts["d1"].state = "complete"
    /\ artifacts["d2"].state = "complete"
    /\ ~artifacts["d2"].execution_allowed
    /\ artifacts["d2"].timestamp.wall < last.at

\* C18: the artifact an execute writes records the execution_allowed,
\* deny_reason and authority_overbroad of the result that execute returns,
\* the decision's decision_id, action and params, and an authority block
\* that is null exactly when the decision has no authority; so it says
\* execution_allowed = true only if the gate allowed that attempt.
C18_ArtifactMatchesResult ==
    Exported(last) =>
        LET artifact == artifacts[Called.decision_id]
        IN  /\ artifact.state = "complete"
            /\ artifact.execution_allowed = last.result.execution_allowed
            /\ artifact.deny_reason = last.result.deny_reason
            /\ artifact.authority_overbroad = last.result.authority_overbroad
            /\ artifact.decision_id = Called.decision_id
            /\ artifact.action = Called.proposal.action
            /\ artifact.params = Called.proposal.params
            /\ (artifact.authority = NoAuthorityBlock) <=> ~Called.authority.present
            /\ artifact.authority.present =>
                 /\ artifact.authority.approved_by = Called.authority.approved_by
                 /\ artifact.authority.scope = Called.authority.scope
            /\ artifact.execution_allowed =>
                 /\ last.result.status = "executed"
                 /\ enforce_authority(Called, last.nowdt).exc = "none"

\* a denied attempt under a bound authority was exported as denied
C18_Witness ==
    /\ Exported(last)
    /\ Called.authority.present
    /\ last.result.deny_reason = "scope_violation"
    /\ artifacts[Called.decision_id].deny_reason = "scope_violation"
    /\ ~artifacts[Called.decision_id].execution_allowed
    /\ artifacts[Called.decision_id].authority.present

\* C19: the observability wrapper is transparent: in every tracing mode the
\* wrapped call returns the value, or raises the error, that calling fn
\* directly would have given; with tracing disabled the call is a direct
\* call of fn with no tracer interaction.
C19_WrapperTransparent ==
    last.op = "traced" =>
        /\ last.exc = fn_call(fn.kind, last.before).exc
        /\ last.ret = fn_call(fn.kind, last.before).value
        /\ last.mode = "disabled" =>
             /\ ~last.tracer_used
             /\ fn.calls = last.before + 1

\* C20: a failure of the tracing applied to the execution boundary (tracer
\* unavailable, misconfigured, raising before or after the wrapped call)
\* never blocks or fails execute and never changes its result.
C20_TracingNeverFailsExecute ==
    (last.op = "execute" /\ last.mode # "working") =>
        /\ last.exc = execute(Called, last.at).raised
        /\ last.result = execute(Called, last.at)

\* the indices of the results that satisfy a condition, counted by hand
AllowedIn(rs) == {i \in DOMAIN rs : rs[i].execution_allowed}

DeniedIn(rs) == DOMAIN rs \ AllowedIn(rs)

OverbroadIn(rs) == {i \in DOMAIN rs : rs[i].authority_overbroad}

\* C21: evaluate_decision_runs returns total_attempts = len(results),
\* allowed = the number of results with execution_allowed true, denied =
\* total_attempts - allowed, overbroad_authority_used = the number of
\* results with authority_overbroad true and allow_rate = allowed /
\* total_attempts when there is a result; of the empty list it returns all
\* counts 0, allow_rate 0.0 and an empty deny_breakdown.
C21_SummaryCounts ==
    summary.done =>
        LET s == summary.value
            n == Len(summary.of)
        IN  /\ s.total_attempts = n
            /\ s.allowed = Cardinality(AllowedIn(summary.of))
            /\ s.denied = n - s.allowed
            /\ s.overbroad_authority_used = Cardinality(OverbroadIn(summary.of))
            /\ n > 0 =>
                 /\ s.allow_rate.den > 0
                 /\ s.allow_rate.num * n = s.allowed * s.allow_rate.den
            /\ n = 0 =>
                 /\ s.allowed = 0 /\ s.denied = 0
                 /\ s.overbroad_authority_used = 0
                 /\ s.allow_rate = ZeroFloat
                 /\ s.deny_breakdown = <<>>

\* a summary of three results, some allowed and some denied
C21_Witness ==
    /\ summary.done
    /\ Len(summary.of) = 3
    /\ summary.value.allowed = 2
    /\ summary.value.denied = 1
    /\ summary.value.overbroad_authority_used = 1
    /\ summary.value.allow_rate = [num |-> 2, den |-> 3]

\* the sum of the counts of a dict of counts
RECURSIVE SumCounts(_)
SumCounts(d) == IF d = <<>> THEN 0 ELSE d[1].count + SumCounts(Tail(d))

\* C22: deny_breakdown is computed over the denied results only: it has an
\* entry exactly for each deny_reason that occurs among them (none filled
\* with zero, none from an allowed result), each entry is the number of
\* denied results with that reason, and the entries sum to denied.
C22_DenyBreakdown ==
    summary.done =>
        LET b == summary.value.deny_breakdown
            rs == summary.of
        IN  /\ \A k, l \in DOMAIN b : b[k].key = b[l].key => k = l
            /\ {b[k].key : k \in DOMAIN b} =
                    {rs[i].deny_reason : i \in DeniedIn(rs)}
            /\ \A k \in DOMAIN b :
                    /\ b[k].count > 0
                    /\ b[k].count =
                         Cardinality({i \in DeniedIn(rs) : rs[i].deny_reason = b[k].key})
            /\ SumCounts(b) = summary.value.denied

\* one allowed result and two results denied for different reasons
C22_Witness ==
    /\ summary.done
    /\ summary.value.allowed = 1
    /\ summary.value.denied = 2
    /\ Len(summary.value.deny_breakdown) = 2
    /\ \E k \in DOMAIN summary.value.deny_breakdown :
          summary.value.deny_breakdown[k].key = "expired_authority"

\* the two lists hold the same results, each as often, in some order
IsPermutation(s, t) ==
    /\ Len(s) = Len(t)
    /\ \E f \in [DOMAIN s -> DOMAIN s] :
          /\ \A i, j \in DOMAIN s : f[i] = f[j] => i = j
          /\ \A i \in DOMAIN s : s[i] = t[f[i]]

\* Python's == on two summaries: dicts compare by their items, whatever the
\* order the keys went in
SummaryEq(a, b) ==
    /\ a.total_attempts = b.total_attempts
    /\ a.allowed = b.allowed
    /\ a.denied = b.denied
    /\ a.allow_rate = b.allow_rate
    /\ a.overbroad_authority_used = b.overbroad_authority_used
    /\ {a.deny_breakdown[k] : k \in DOMAIN a.deny_breakdown} =
            {b.deny_breakdown[k] : k \in DOMAIN b.deny_breakdown}

\* C23: evaluate_decision_runs is pure and order-independent: the summary of
\* a list and the summary of any permutation of it are equal, and a call
\* leaves the list it was given as it was.
C23_OrderIndependent ==
    [][/\ (summary.done /\ summary'.done /\ IsPermutation(summary.of, summary'.of)) =>
            SummaryEq(summary.value, summary'.value)
       /\ summary' # summary => (results' = results /\ summary'.of = results)]_vars

\* a summary of three results denied for two reasons, whose list has since
\* been put in an order that meets the reasons the other way round
C23_Witness ==
    /\ summary.done
    /\ Len(summary.of) = 3
    /\ summary.of # results
    /\ IsPermutation(summary.of, results)
    /\ Len(summary.value.deny_breakdown) = 2
    /\ summary.value.deny_breakdown # evaluate_decision_runs(results).deny_breakdown
    /\ SummaryEq(summary.value, evaluate_decision_runs(results))

\* C24: every result execute returns has one of two shapes: executed
\* (status "executed", execution_allowed true, deny_reason null) or blocked
\* (status "blocked", execution_allowed false, deny_reason one of
\* missing_authority, expired_authority, scope_violation, and
\* authority_overbroad false); authority_overbroad = true occurs only on
\* executed results, even when an unscoped authority is denied.
C24_TwoShapes ==
    (last.op = "execute" /\ last.exc = "none") =>
        LET r == last.result
        IN  /\ \/ /\ r.status = "executed"
                  /\ r.execution_allowed
                  /\ r.deny_reason = "null"
               \/ /\ r.status = "blocked"
                  /\ ~r.execution_allowed
                  /\ r.deny_reason \in
                        {"missing_authority", "expired_authority", "scope_violation"}
                  /\ ~r.authority_overbroad
            /\ r.authority_overbroad => r.status = "executed"

\* an unscoped authority was denied as expired, and not reported overbroad
C24_Witness ==
    /\ last.op = "execute"
    /\ last.exc = "none"
    /\ Approved(Called.authority)
    /\ Called.authority.scope.kind = "none"
    /\ last.result.status = "blocked"
    /\ last.result.deny_reason = "expired_authority"
    /\ ~last.result.authority_overbroad

\* C25: the outcome does not depend on proposal content other than the
\* action: two decisions executed at the same clock value that agree on
\* authority and on proposal.action get the same execution_allowed,
\* deny_reason and authority_overbroad, whatever their params, rationale,
\* decision_id and created_at.
C25_ContentIndependent ==
    [][(/\ last.op = "execute" /\ last'.op = "execute"
        /\ last'.at = last.at
        /\ decisions[last.d].authority = decisions'[last'.d].authority
        /\ decisions[last.d].proposal.action = decisions'[last'.d].proposal.action) =>
            /\ (last'.exc = "none") <=> (last.exc = "none")
            /\ last'.result.execution_allowed = last.result.execution_allowed
            /\ last'.result.deny_reason = last.result.deny_reason
            /\ last'.result.authority_overbroad = last.result.authority_overbroad]_vars

\* C26: each call of a function wrapped by trace_if_enabled invokes fn
\* exactly once, in every tracing mode: when fn itself raises under enabled
\* tracing, and when the tracer raises after fn has run, fn is not invoked
\* a second time.
C26_InvokedOnce ==
    last.op = "traced" => fn.calls = last.before + 1

\* C27: a failed export leaves the artifact store unchanged: whichever step
\* fails (creating the directory, opening the file, serializing the
\* artifact), the artifact stored before under that decision_id is still
\* there with its content, and no partial or empty document takes its place.
C27_FailedExportKeepsStore ==
    [][(last'.op = "execute" /\ last'.exports # <<>>
            /\ last'.export_failure # "none") =>
         /\ artifacts' = artifacts
         /\ \A id \in DOMAIN artifacts : artifacts'[id].state # "partial"]_vars

====
